---- MODULE Spec2Model ----
(***************************************************************************)
(* axum-distributed-routing.                                               *)
(*                                                                         *)
(* Part I  : the path-template parser Args::parse_path and the expansion   *)
(*           of the route! macro (axum-distributed-routing-macros).        *)
(* Part II : the registry filled by route! / route_group! and the          *)
(*           composition create_router (axum-distributed-routing).         *)
(*                                                                         *)
(* Strings that are scanned character by character are sequences of        *)
(* one-character strings; paths that are only concatenated are strings.    *)
(***************************************************************************)
EXTENDS Integers, Sequences, FiniteSets, TLC

VARIABLES
    \* ---- Part I: Args::parse_path and route!
    path,           \* the template handed to parse_path (sequence of characters)
    pos,            \* position of the `for c in path.chars()` loop
    real_path,      \* local real_path
    path_params,    \* local path_params: HashMap<Ident, Type>
    state,          \* local state: ParsePathState
    current_name,   \* local current_name
    current_type,   \* local current_type
    ppc,            \* "loop", "ok", "err" (parse_path returned), "expanded" (route! done)
    ret,            \* the value parse_path returned
    path_idents,    \* route!: path_params.keys().collect()
    path_types,     \* route!: path_params.values().collect()
    route_path,     \* route!: the path literal the generated entry registers
    \* ---- Part II: registry and create_router
    decls,          \* the route! and route_group! invocations of the program so far
    registry,       \* inventory: group -> submitted entries, in iteration order
    stack,          \* call stack of create_router frames
    cpc,            \* "load", "run", "idle", "overflow"
    results         \* start level -> router returned by a finished create_router call

pvars == <<path, pos, real_path, path_params, state, current_name, current_type,
           ppc, ret, path_idents, path_types, route_path>>
cvars == <<decls, registry, stack, cpc, results>>
vars == <<pvars, cvars>>

(***************************************************************************)
(* Bounds of the model                                                     *)
(***************************************************************************)
\* number of pieces a template is assembled from
MaxPieces == 4
\* number of route! invocations in the program
MaxRoutes == 2
\* create_router is started with level 0 (create_router!) or with level MaxLevel
MaxLevel == 1
\* number of create_router frames the call stack holds before it is exhausted
MaxDepth == 4

(***************************************************************************)
(* Part I: the path-template parser                                        *)
(***************************************************************************)
Letters == {"a", "b"}
Alphabet == Letters \cup {"/", " ", "{", "}", ":"}

\* "{name:type}"
ParamPiece(n, t) == <<"{">> \o n \o <<":">> \o t \o <<"}">>

Pieces ==
    {<<c>> : c \in Alphabet}
    \cup {ParamPiece(<<n>>, <<t>>) : n \in Letters, t \in Letters}

RECURSIVE Flatten(_)
Flatten(ps) == IF ps = <<>> THEN <<>> ELSE Head(ps) \o Flatten(Tail(ps))

\* the templates fed to parse_path
Templates ==
    {Flatten(ps) : ps \in UNION {[1..n -> Pieces] : n \in 0..MaxPieces}}

\* str::trim of a token (whitespace is no token)
RECURSIVE TrimLeft(_)
TrimLeft(s) ==
    IF s # <<>> /\ Head(s) = " " THEN TrimLeft(Tail(s)) ELSE s

RECURSIVE TrimRight(_)
TrimRight(s) ==
    IF s # <<>> /\ s[Len(s)] = " " THEN TrimRight(SubSeq(s, 1, Len(s) - 1)) ELSE s

Trim(s) == TrimRight(TrimLeft(s))

\* syn::parse2::<Ident>(TokenStream::from_str(s)) succeeds: exactly one
\* identifier token (over Alphabet: a non-empty run of letters).
IsIdent(s) ==
    /\ Trim(s) # <<>>
    /\ \A i \in 1..Len(Trim(s)) : Trim(s)[i] \in Letters

\* the Ident parsed from s (surrounding whitespace is not part of the token)
IdentOf(s) == Trim(s)

\* syn::parse2::<Type>(TokenStream::from_str(s)) succeeds (over Alphabet the
\* only types are single identifiers: "/" starts no type, "::" cannot occur).
IsType(s) ==
    /\ Trim(s) # <<>>
    /\ \A i \in 1..Len(Trim(s)) : Trim(s)[i] \in Letters

TypeOf(s) == Trim(s)

EmptyMap == [k \in {} |-> <<>>]

\* HashMap::insert
MapInsert(m, k, v) ==
    [x \in (DOMAIN m) \cup {k} |-> IF x = k THEN v ELSE m[x]]

ErrInvalid == <<"Err", "Invalid path">>
ErrSyn == <<"Err", "syn">>
NoRet == <<"None">>

\* Ok((path, path_params))
OkRet(p, real, params) == <<"Ok", p, params>>

IsErr(r) == r[1] = "Err"

ParseInit ==
    /\ path \in Templates
    /\ pos = 1
    /\ real_path = <<>>
    /\ path_params = EmptyMap
    /\ state = "Path"
    /\ current_name = <<>>
    /\ current_type = <<>>
    /\ ppc = "loop"
    /\ ret = NoRet
    /\ path_idents = <<>>
    /\ path_types = <<>>
    /\ route_path = <<>>

InLoop == ppc = "loop" /\ pos <= Len(path)

Fail(e) ==
    /\ ppc' = "err"
    /\ ret' = e
    /\ UNCHANGED <<path, pos, real_path, path_params, state, current_name,
                   current_type, path_idents, path_types, route_path>>
    /\ UNCHANGED cvars

\* the state check on '{' left out
OpenOkAny(st) == TRUE

\* '{' => ...
OpenOk(st) == st = "Path"

StepOpen ==
    /\ InLoop
    /\ path[pos] = "{"
    /\ IF OpenOk(state)
       THEN /\ state' = "PathParamName"
            /\ pos' = pos + 1
            /\ UNCHANGED <<path, real_path, path_params, current_name, current_type,
                           ppc, ret, path_idents, path_types, route_path>>
            /\ UNCHANGED cvars
       ELSE Fail(ErrInvalid)

\* '}' => ...
CloseOk(st) == st = "PathParamType"

StepClose ==
    /\ InLoop
    /\ path[pos] = "}"
    /\ IF CloseOk(state)
       THEN IF IsIdent(current_name) /\ IsType(current_type)
            THEN /\ path_params' = MapInsert(path_params, IdentOf(current_name),
                                             TypeOf(current_type))
                 /\ real_path' = (real_path \o <<":">>) \o current_name
                 /\ current_name' = <<>>
                 /\ current_type' = <<>>
                 /\ state' = "Path"
                 /\ pos' = pos + 1
                 /\ UNCHANGED <<path, ppc, ret, path_idents, path_types, route_path>>
                 /\ UNCHANGED cvars
            ELSE Fail(ErrSyn)
       ELSE Fail(ErrInvalid)

\* the state check on ':' left out
ColonOkAny(st) == TRUE

\* ':' => ...
ColonOk(st) == st = "PathParamName"

StepColon ==
    /\ InLoop
    /\ path[pos] = ":"
    /\ IF ColonOk(state)
       THEN /\ state' = "PathParamType"
            /\ pos' = pos + 1
            /\ UNCHANGED <<path, real_path, path_params, current_name, current_type,
                           ppc, ret, path_idents, path_types, route_path>>
            /\ UNCHANGED cvars
       ELSE Fail(ErrInvalid)

\* _ => match state { ... }
StepOther ==
    /\ InLoop
    /\ path[pos] \notin {"{", "}", ":"}
    /\ real_path' = IF state = "Path" THEN Append(real_path, path[pos]) ELSE real_path
    /\ current_name' = IF state = "PathParamName"
                       THEN Append(current_name, path[pos]) ELSE current_name
    /\ current_type' = IF state = "PathParamType"
                       THEN Append(current_type, path[pos]) ELSE current_type
    /\ pos' = pos + 1
    /\ UNCHANGED <<path, path_params, state, ppc, ret, path_idents, path_types,
                   route_path>>
    /\ UNCHANGED cvars

\* the final check tests for PathParamName only
EndOkNameOnly(st) == st # "PathParamName"

\* the check after the loop: `if state != ParsePathState::Path { return Err }`
EndOk(st) == st = "Path"

\* end of input: the final check and the returned value
Finish ==
    /\ ppc = "loop"
    /\ pos > Len(path)
    /\ IF EndOk(state)
       THEN /\ ppc' = "ok"
            /\ ret' = OkRet(path, real_path, path_params)
            /\ UNCHANGED <<path, pos, real_path, path_params, state, current_name,
                           current_type, path_idents, path_types, route_path>>
            /\ UNCHANGED cvars
       ELSE Fail(ErrInvalid)

\* the orders in which a HashMap with key set S may iterate
Orders(S) ==
    {o \in [1..Cardinality(S) -> S] : \A i, j \in DOMAIN o : i # j => o[i] # o[j]}

\* route!: the capture tuple and the registered path
Expand ==
    /\ ppc = "ok"
    /\ \E o \in Orders(DOMAIN ret[3]) :
          /\ path_idents' = o
          /\ path_types' = [i \in DOMAIN o |-> ret[3][o[i]]]
    /\ route_path' = ret[2]
    /\ ppc' = "expanded"
    /\ UNCHANGED <<path, pos, real_path, path_params, state, current_name,
                   current_type, ret>>
    /\ UNCHANGED cvars

ParseNext ==
    \/ StepOpen
    \/ StepClose
    \/ StepColon
    \/ StepOther
    \/ Finish
    \/ Expand

(***************************************************************************)
(* Part I: properties                                                      *)
(***************************************************************************)
\* index of the first occurrence of character c in s at or after i (0 if none)
RECURSIVE IndexFrom(_, _, _)
IndexFrom(s, c, i) ==
    IF i > Len(s) THEN 0
    ELSE IF s[i] = c THEN i
    ELSE IndexFrom(s, c, i + 1)

\* the template with every {name:type} replaced by :name, literals kept
RECURSIVE ColonForm(_)
ColonForm(s) ==
    IF s = <<>> THEN <<>>
    ELSE IF Head(s) = "{"
         THEN LET k == IndexFrom(s, ":", 1)
                  e == IndexFrom(s, "}", 1)
              IN  (<<":">> \o SubSeq(s, 2, k - 1)) \o ColonForm(SubSeq(s, e + 1, Len(s)))
         ELSE <<Head(s)>> \o ColonForm(Tail(s))

\* the {name:type} segments of an accepted template, left to right
RECURSIVE ParamSegments(_)
ParamSegments(s) ==
    IF s = <<>> THEN <<>>
    ELSE IF Head(s) = "{"
         THEN LET k == IndexFrom(s, ":", 1)
                  e == IndexFrom(s, "}", 1)
              IN  <<[name |-> Trim(SubSeq(s, 2, k - 1)),
                     type |-> Trim(SubSeq(s, k + 1, e - 1))]>>
                  \o ParamSegments(SubSeq(s, e + 1, Len(s)))
         ELSE ParamSegments(Tail(s))

\* the character the loop is about to read
AtChar(st) == ppc = "loop" /\ pos <= Len(path) /\ state = st

\* C1: for every accepted template, the path parse_path returns and route!
\* registers is the template with each {name:type} replaced by :name and all
\* literal characters kept in order.
C1_ColonPath ==
    ppc = "expanded" => (ret[2] = ColonForm(path) /\ route_path = ColonForm(path))

\* the parameter names of the template are pairwise distinct
DistinctNames(segs) ==
    \A i, j \in DOMAIN segs : i # j => segs[i].name # segs[j].name

\* C2: for every accepted template with two or more parameters, the i-th
\* element of the generated capture tuple (name and type) is the i-th
\* {name:type} segment of the template. Stated for the templates whose
\* parameter names are pairwise distinct (a repeated name is the case of C11).
C2_TupleInTemplateOrder ==
    (/\ ppc = "expanded"
     /\ Len(ParamSegments(path)) >= 2
     /\ DistinctNames(ParamSegments(path))) =>
        /\ path_idents = [i \in DOMAIN ParamSegments(path) |-> ParamSegments(path)[i].name]
        /\ path_types = [i \in DOMAIN ParamSegments(path) |-> ParamSegments(path)[i].type]

\* C3 (as claimed): in state Path only `{` leaves the state; every other
\* character, `:` and `}` included, is accumulated as a literal, the parser
\* stays in Path and raises no error.
C3_PathAllLiteral ==
    [][AtChar("Path") =>
          IF path[pos] = "{"
          THEN state' = "PathParamName" /\ ppc' = "loop"
          ELSE /\ state' = "Path"
               /\ ppc' = "loop"
               /\ real_path' = Append(real_path, path[pos])]_vars

\* C3 (amended): in state Path, `{` moves to ParamName, `:` and `}` are syntax
\* errors, and every other character is accumulated as a literal while the
\* parser stays in Path without error.
C3_PathTransitions ==
    [][AtChar("Path") =>
          IF path[pos] = "{"
          THEN state' = "PathParamName" /\ ppc' = "loop" /\ real_path' = real_path
          ELSE IF path[pos] \in {":", "}"}
          THEN ppc' = "err" /\ ret' = ErrInvalid
          ELSE /\ state' = "Path"
               /\ ppc' = "loop"
               /\ real_path' = Append(real_path, path[pos])]_vars

\* a `:` met in state Path ended the parse with an error, after literals
C3_Witness ==
    /\ ppc = "err"
    /\ state = "Path"
    /\ pos <= Len(path)
    /\ path[pos] = ":"
    /\ real_path # <<>>

\* C4: an input that ends in state ParamName or ParamType makes parse_path
\* return a syntax error: no path, no bindings, and route! expands nothing.
C4_UnterminatedIsError ==
    (ppc # "loop" /\ pos > Len(path) /\ state \in {"PathParamName", "PathParamType"}) =>
        /\ ppc = "err"
        /\ ret = ErrInvalid
        /\ route_path = <<>>
        /\ path_idents = <<>>

\* the input ended inside the type of a second parameter, after one binding
\* and some literal text had been collected
C4_Witness ==
    /\ ppc = "err"
    /\ pos > Len(path)
    /\ state = "PathParamType"
    /\ DOMAIN path_params # {}
    /\ real_path # <<>>

\* the transitions inside a parameter, with the effect of a closing `}` in
\* state ParamType given by Closes
InsideParam(Closes) ==
    /\ AtChar("PathParamName") =>
          IF path[pos] = ":"
          THEN state' = "PathParamType" /\ ppc' = "loop" /\ current_name' = current_name
          ELSE IF path[pos] \in {"{", "}"}
          THEN ppc' = "err" /\ IsErr(ret')
          ELSE /\ current_name' = Append(current_name, path[pos])
               /\ state' = "PathParamName"
               /\ ppc' = "loop"
    /\ AtChar("PathParamType") =>
          IF path[pos] = "}"
          THEN Closes
          ELSE IF path[pos] \in {"{", ":"}
          THEN ppc' = "err" /\ IsErr(ret')
          ELSE /\ current_type' = Append(current_type, path[pos])
               /\ state' = "PathParamType"
               /\ ppc' = "loop"

\* `}` closes the parameter: one binding name -> type recorded, back in Path
Closed ==
    /\ state' = "Path"
    /\ ppc' = "loop"
    /\ IdentOf(current_name) \in DOMAIN path_params'
    /\ path_params'[IdentOf(current_name)] = TypeOf(current_type)
    /\ \A k \in DOMAIN path_params' :
          k # IdentOf(current_name) => k \in DOMAIN path_params /\ path_params'[k] = path_params[k]
    /\ \A k \in DOMAIN path_params : k \in DOMAIN path_params'

\* C5 (as claimed): in ParamName `:` moves to ParamType and `{`, `}` are
\* errors; in ParamType `}` closes the parameter, records one binding and
\* returns to Path, and `{`, `:` are errors; other characters are appended to
\* the name or the type.
C5_ParamAlwaysCloses == [][InsideParam(Closed)]_vars

\* C5 (amended): as claimed, except that `}` in ParamType closes the parameter
\* only when the name is an identifier and the type token is a type; otherwise
\* it is an error and nothing is recorded.
C5_ParamTransitions ==
    [][InsideParam(IF IsIdent(current_name) /\ IsType(current_type)
                   THEN Closed
                   ELSE ppc' = "err" /\ IsErr(ret') /\ path_params' = path_params)]_vars

\* a `}` in ParamType has just recorded a second binding
C5_Witness ==
    /\ ppc = "loop"
    /\ state = "Path"
    /\ pos > 1
    /\ path[pos - 1] = "}"
    /\ Cardinality(DOMAIN path_params) = 2

\* C11: for every accepted template the returned binding holds exactly one
\* (name, type) entry per {name:type} segment, so the handler has as many path
\* parameters as the template has parameter segments, also when two segments
\* use the same name.
C11_OneBindingPerSegment ==
    ppc = "expanded" =>
        /\ Cardinality(DOMAIN ret[3]) = Len(ParamSegments(path))
        /\ Len(path_idents) = Len(ParamSegments(path))
        /\ Len(path_types) = Len(ParamSegments(path))

(***************************************************************************)
(* Part II: registry and composition                                       *)
(***************************************************************************)
GroupNames == {"Routes", "Api", "V1"}
\* the group handed to create_router! (group names are interchangeable)
Root == "Routes"
\* the prefix under which a group is nested by route_group!(name, ty, parent, path)
PrefixOf == [g \in GroupNames |->
                IF g = "Routes" THEN "/r" ELSE IF g = "Api" THEN "/api" ELSE "/v1"]
Methods == {"GET", "POST"}
RoutePaths == {"/health"}
StartLevels == {0, MaxLevel}

\* route_group!(name, ty, parent, path): the level handed to the child group
LevelStep == 4

\* the level raised by one
ChildLevelOne(level) == level + 1

ChildLevel(level) == level + LevelStep

\* ---- the router primitive (axum::Router), as the set of (method, path) it serves
\* Router::new()
NewRouter == {}

\* Router::route(path, method_router)
RouterRoute(router, p, m) == router \cup {<<m, p>>}

\* the child merged without its prefix
RouterNestFlat(router, p, child) == router \cup child

\* Router::nest(path, child)
RouterNest(router, p, child) == router \cup {<<r[1], p \o r[2]>> : r \in child}

\* ---- the entries: $group::new(path, handler)
\* route!: #group::new(#path, |r, _| r.route(#path, #handler))
RouteEntry(m, p) == [path |-> p, kind |-> "route", method |-> m, child |-> "-"]

\* route_group!: $parent::new($path, |router, level| router.nest($path, create_router::<$name>(level + 4)))
NestEntry(c, p) == [path |-> p, kind |-> "nest", method |-> "-", child |-> c]

\* the route put on a new router, the accumulated one dropped
RouteHandlerFresh(router, level, e) == RouterRoute(NewRouter, e.path, e.method)

\* the route registered at level 0 only
RouteHandlerTopOnly(router, level, e) ==
    IF level = 0 THEN RouterRoute(router, e.path, e.method) ELSE router

\* the handler of a route entry: |r, _| r.route(#path, #handler)
RouteHandler(router, level, e) == RouterRoute(router, e.path, e.method)

\* inventory::submit!: the entry is pushed on the front of its group's list
Submit(reg, g, e) == [reg EXCEPT ![g] = <<e>> \o @]

\* ---- the declarations of the program
RouteDecl(g, m, p) == [macro |-> "route", group |-> g, method |-> m, path |-> p, parent |-> "-"]
RootDecl(g) == [macro |-> "route_group", group |-> g, method |-> "-", path |-> "-", parent |-> "-"]
NestedDecl(g, par, p) == [macro |-> "route_group", group |-> g, method |-> "-", path |-> p, parent |-> par]

Declared == {d.group : d \in {x \in decls : x.macro = "route_group"}}

\* the group whose registry the declaration submits to
SubmitGroup(d) == IF d.macro = "route" THEN d.group ELSE d.parent

\* the entry the declaration submits
SubmitEntry(d) ==
    IF d.macro = "route" THEN RouteEntry(d.method, d.path) ELSE NestEntry(d.group, d.path)

ParseOff ==
    /\ path = <<>>
    /\ pos = 1
    /\ real_path = <<>>
    /\ path_params = EmptyMap
    /\ state = "Path"
    /\ current_name = <<>>
    /\ current_type = <<>>
    /\ ppc = "off"
    /\ ret = NoRet
    /\ path_idents = <<>>
    /\ path_types = <<>>
    /\ route_path = <<>>

ComposeInit ==
    /\ decls = {}
    /\ registry = [g \in GroupNames |-> <<>>]
    /\ stack = <<>>
    /\ cpc = "load"
    /\ results = EmptyMap

\* route_group!(name, ty)
DeclareRoot(g) ==
    /\ cpc = "load"
    /\ g \notin Declared
    /\ decls' = decls \cup {RootDecl(g)}
    /\ UNCHANGED <<registry, stack, cpc, results>>
    /\ UNCHANGED pvars

\* route_group!(name, ty, parent, path)
DeclareNested(g, par) ==
    /\ cpc = "load"
    /\ g \notin Declared
    /\ decls' = decls \cup {NestedDecl(g, par, PrefixOf[g])}
    /\ registry' = Submit(registry, SubmitGroup(NestedDecl(g, par, PrefixOf[g])),
                          SubmitEntry(NestedDecl(g, par, PrefixOf[g])))
    /\ UNCHANGED <<stack, cpc, results>>
    /\ UNCHANGED pvars

\* route!(group = g, method = m, path = p, ...); the routes of a program are
\* distinct declarations (what two equal registrations do is the router's affair)
DeclareRoute(g, m, p) ==
    /\ cpc = "load"
    /\ Cardinality({d \in decls : d.macro = "route"}) < MaxRoutes
    /\ RouteDecl(g, m, p) \notin decls
    /\ decls' = decls \cup {RouteDecl(g, m, p)}
    /\ registry' = Submit(registry, SubmitGroup(RouteDecl(g, m, p)),
                          SubmitEntry(RouteDecl(g, m, p)))
    /\ UNCHANGED <<stack, cpc, results>>
    /\ UNCHANGED pvars

\* every group the program names is declared (the program compiles)
Compiles ==
    /\ Root \in Declared
    /\ \A d \in decls : SubmitGroup(d) = "-" \/ SubmitGroup(d) \in Declared

\* a create_router frame: `let mut router = Router::new(); for route in iter`
NewFrame(g, level) ==
    [group |-> g, level |-> level, idx |-> 1, router |-> NewRouter, calls |-> <<>>]

\* attach always given level 0
AttachLevelZero(level) == 0

\* the level create_router hands to attach
AttachLevel(level) == level

\* the record of one `route.attach(router, level)`
Call(e, level, router) == [entry |-> e, level |-> level, router |-> router]

Top == stack[Len(stack)]

\* the entry the loop of the top frame is at
AtEntry ==
    /\ cpc = "run"
    /\ Top.idx <= Len(registry[Top.group])

Entry == registry[Top.group][Top.idx]

\* create_router::<Root>(n), after all submissions have run
Main(n) ==
    /\ cpc \in {"load", "idle"}
    /\ Compiles
    /\ n \notin DOMAIN results
    /\ stack' = <<NewFrame(Root, n)>>
    /\ cpc' = "run"
    /\ UNCHANGED <<decls, registry, results>>
    /\ UNCHANGED pvars

\* router = route.attach(router, level) for a route entry
AttachRoute ==
    /\ AtEntry
    /\ Entry.kind = "route"
    /\ stack' = [stack EXCEPT ![Len(stack)] =
                    [@ EXCEPT !.router = RouteHandler(@, AttachLevel(Top.level), Entry),
                              !.idx = @ + 1,
                              !.calls = Append(@, Call(Entry, AttachLevel(Top.level), Top.router))]]
    /\ UNCHANGED <<decls, registry, cpc, results>>
    /\ UNCHANGED pvars

\* route.attach(router, level) for a nested group: create_router::<child>(level + 4) is entered
AttachNest ==
    /\ AtEntry
    /\ Entry.kind = "nest"
    /\ IF Len(stack) < MaxDepth
       THEN /\ stack' = Append(
                   [stack EXCEPT ![Len(stack)] =
                       [@ EXCEPT !.calls = Append(@, Call(Entry, AttachLevel(Top.level), Top.router))]],
                   NewFrame(Entry.child, ChildLevel(AttachLevel(Top.level))))
            /\ UNCHANGED cpc
       ELSE /\ cpc' = "overflow"
            /\ UNCHANGED stack
    /\ UNCHANGED <<decls, registry, results>>
    /\ UNCHANGED pvars

\* the loop of the top frame is over: create_router returns its router
Return ==
    /\ cpc = "run"
    /\ Top.idx > Len(registry[Top.group])
    /\ IF Len(stack) = 1
       THEN /\ results' = MapInsert(results, Top.level, Top.router)
            /\ stack' = <<>>
            /\ cpc' = "idle"
       ELSE LET caller == stack[Len(stack) - 1]
                e == registry[caller.group][caller.idx]
            IN  /\ stack' = [SubSeq(stack, 1, Len(stack) - 1) EXCEPT ![Len(stack) - 1] =
                                [@ EXCEPT !.router = RouterNest(@, e.path, Top.router),
                                          !.idx = @ + 1]]
                /\ UNCHANGED <<cpc, results>>
    /\ UNCHANGED <<decls, registry>>
    /\ UNCHANGED pvars

RunStep == AttachRoute \/ AttachNest \/ Return

ComposeNext ==
    \/ \E g \in GroupNames : DeclareRoot(g)
    \/ \E g \in GroupNames, par \in GroupNames : DeclareNested(g, par)
    \/ \E g \in GroupNames, m \in Methods, p \in RoutePaths : DeclareRoute(g, m, p)
    \/ \E n \in StartLevels : Main(n)
    \/ AttachRoute
    \/ AttachNest
    \/ Return

ComposeOff ==
    /\ decls = {}
    /\ registry = [g \in GroupNames |-> <<>>]
    /\ stack = <<>>
    /\ cpc = "off"
    /\ results = EmptyMap

(***************************************************************************)
(* Part II: properties                                                     *)
(***************************************************************************)
RouteDecls == {d \in decls : d.macro = "route"}
NestedDecls == {d \in decls : d.macro = "route_group" /\ d.parent # "-"}

\* the (method, path) pairs of group g and of the groups nested below it, read
\* off the set of declarations alone (d bounds the nesting depth followed)
RECURSIVE DeclRoutes(_, _)
DeclRoutes(g, d) ==
    {<<r.method, r.path>> : r \in {x \in RouteDecls : x.group = g}}
    \cup (IF d = 0 THEN {}
          ELSE UNION {{<<r[1], c.path \o r[2]>> : r \in DeclRoutes(c.group, d - 1)} :
                         c \in {x \in NestedDecls : x.parent = g}})

\* the prefixes from Root down to group g: walk from g up through the parents
RECURSIVE ChainPrefix(_, _)
ChainPrefix(g, d) ==
    IF g = Root THEN {""}
    ELSE IF d = 0 THEN {}
    ELSE UNION {{q \o c.path : q \in ChainPrefix(c.parent, d - 1)} :
                   c \in {x \in NestedDecls : x.group = g}}

Depth == Cardinality(GroupNames)

\* the groups nested directly in g, by the registry
Children(g) ==
    {registry[g][i].child : i \in {j \in DOMAIN registry[g] : registry[g][j].kind = "nest"}}

\* the groups reached from the groups of S in one or more nesting steps
RECURSIVE Below(_, _)
Below(S, d) ==
    IF d = 0 THEN {}
    ELSE LET C == UNION {Children(g) : g \in S}
         IN  C \cup Below(C, d - 1)

\* a group composed from Root is nested, directly or transitively, in itself
CyclicFromRoot ==
    \E g \in {Root} \cup Below({Root}, Depth) : g \in Below({g}, Depth)

\* C6: the composed router depends only on the set of declarations, not on the
\* order in which the registry iterates them.
C6_OrderIndependent ==
    \A n \in DOMAIN results : results[n] = DeclRoutes(Root, Depth)

\* a finished composition of a root whose registry iterates a route before a
\* nested group that has routes of its own
C6_Witness ==
    /\ DOMAIN results # {}
    /\ Len(registry[Root]) >= 2
    /\ registry[Root][1].kind = "route"
    /\ registry[Root][2].kind = "nest"
    /\ \E n \in DOMAIN results : Cardinality(results[n]) >= 2

\* C7: a route (m, t) of a group nested below the root is reachable at the
\* concatenation of the prefixes from the root down followed by t, and the
\* router serves no other path.
C7_NestedPrefix ==
    \A n \in DOMAIN results :
        /\ \A r \in RouteDecls : \A q \in ChainPrefix(r.group, Depth) :
              <<r.method, q \o r.path>> \in results[n]
        /\ \A x \in results[n] : \E r \in RouteDecls :
              \E q \in ChainPrefix(r.group, Depth) : x = <<r.method, q \o r.path>>

\* a route of V1, nested in Api, nested in Routes
C7_Witness ==
    /\ DOMAIN results # {}
    /\ \E n \in DOMAIN results : <<"GET", "/api/v1/health">> \in results[n]

\* C8: the level create_router starts with has no effect on the router: two
\* compositions of the same registry with different start levels return the
\* same routes, and a nested group only receives its parent's level raised by
\* the constant step.
C8_LevelIrrelevant ==
    /\ \A n, k \in DOMAIN results : results[n] = results[k]
    /\ \A i \in DOMAIN stack :
          i > 1 => stack[i].level = stack[i - 1].level + LevelStep

\* two compositions with different start levels, of a root with a route of its
\* own and a nested group with a route
C8_Witness ==
    /\ Cardinality(DOMAIN results) >= 2
    /\ \E n \in DOMAIN results :
          /\ \E x \in results[n] : x[2] = "/health"
          /\ \E x \in results[n] : x[2] # "/health"

\* the attach calls of frame f are the entries of its group, in iteration
\* order, each with the frame's level and the router accumulated so far
FrameCalls(f, inner) ==
    /\ Len(f.calls) = (IF inner THEN f.idx ELSE f.idx - 1)
    /\ Len(f.calls) <= Len(registry[f.group])
    /\ \A k \in DOMAIN f.calls :
          /\ f.calls[k].entry = registry[f.group][k]
          /\ f.calls[k].level = f.level
          /\ f.calls[k].router = (IF k = 1 THEN {} ELSE
                IF f.calls[k - 1].entry.kind = "route"
                THEN f.calls[k - 1].router
                     \cup {<<f.calls[k - 1].entry.method, f.calls[k - 1].entry.path>>}
                ELSE f.calls[k].router)
          /\ k > 1 => f.calls[k - 1].router \subseteq f.calls[k].router
    /\ (~inner /\ f.calls # <<>>) => f.calls[Len(f.calls)].router \subseteq f.router

\* each submitting declaration has exactly one entry, in its own group's registry
OneEntryEach ==
    /\ \A d \in RouteDecls \cup NestedDecls :
          /\ Cardinality({i \in DOMAIN registry[SubmitGroup(d)] :
                             registry[SubmitGroup(d)][i] = SubmitEntry(d)}) = 1
          /\ \A g \in GroupNames \ {SubmitGroup(d)} :
                d.macro = "route_group" =>
                    \A i \in DOMAIN registry[g] : registry[g][i] # SubmitEntry(d)
    /\ \A g \in GroupNames : \A i \in DOMAIN registry[g] :
          \E d \in RouteDecls \cup NestedDecls :
              SubmitGroup(d) = g /\ SubmitEntry(d) = registry[g][i]
    /\ Cardinality(RouteDecls \cup NestedDecls)
          = Len(registry["Routes"]) + Len(registry["Api"]) + Len(registry["V1"])

\* C9: create_router(G, n) starts from an empty router and attaches every entry
\* of G exactly once, with the accumulated router and level n; each declaration
\* has one entry in one registry; the registry is not changed by composition.
C9_AttachEachOnce ==
    /\ [](/\ OneEntryEach
          /\ \A i \in DOMAIN stack : FrameCalls(stack[i], i < Len(stack))
          /\ \A i \in DOMAIN stack :
                (i = Len(stack) /\ stack[i].idx > Len(registry[stack[i].group])) =>
                    [k \in DOMAIN stack[i].calls |-> stack[i].calls[k].entry]
                        = registry[stack[i].group])
    /\ [][cpc # "load" => registry' = registry]_vars

\* a nested create_router, below a start level other than 0, has attached its two entries
C9_Witness ==
    /\ cpc = "run"
    /\ Len(stack) = 2
    /\ stack[1].level = MaxLevel
    /\ stack[2].idx > Len(registry[stack[2].group])
    /\ Len(stack[2].calls) = 2

\* C10: with an acyclic nesting relation create_router(root, 0) terminates and
\* a group at depth d below the root is composed with level 4 * d; a group
\* nested in itself, directly or transitively, makes create_router never return.
C10_TerminationAndLevels ==
    /\ ((cpc = "run" /\ ~CyclicFromRoot) ~> (cpc = "idle"))
    /\ [](\A i \in DOMAIN stack : stack[1].level = 0 => stack[i].level = 4 * (i - 1))
    /\ []((CyclicFromRoot /\ cpc # "load") => (cpc \in {"run", "overflow"} /\ results = EmptyMap))

\* the composition of a group at depth 2 below the root, started with level 0
C10_Witness ==
    /\ cpc = "run"
    /\ ~CyclicFromRoot
    /\ Len(stack) = 3
    /\ stack[1].level = 0
    /\ stack[3].level = 8

InitPath == ParseInit /\ ComposeOff

InitCompose == ParseOff /\ ComposeInit

\* the macro crate: parse_path and route! on one template
SpecPath == InitPath /\ [][ParseNext]_vars

\* the runtime crate: the submissions of a program, then create_router
SpecCompose == InitCompose /\ [][ComposeNext]_vars

\* a started create_router keeps running: it is ordinary sequential code
SpecComposeFair == SpecCompose /\ WF_vars(RunStep)

====
